---- MODULE Spec2Model ----
(***************************************************************************)
(* Model of rarena-allocator's Arena (src/rarena-allocator/src/arena.rs    *)
(* and arena/backed.rs): the bump pointer, the intrusive free-list of      *)
(* segments, the header, and the reference-counted handle.                 *)
(*                                                                         *)
(* u32 values are modelled at width U32_BITS (all u32 arithmetic is taken  *)
(* modulo 2^U32_BITS); a 64-bit node word is two such halves.  Offsets     *)
(* are measured as the code measures them; addresses are integers.        *)
(***************************************************************************)
EXTENDS Integers, Naturals, Sequences, FiniteSets, Bags, TLC

\* ------------------------------------------------------------------ bounds
U32_BITS == 8
NThreads == 2
Capacity == 68
MaxOps == 6
MaxHandles == 3
MinSegmentSize == 8
USIZE_BITS == 16
MaxSessions == 2

Threads == 1..NThreads
Sizes == {16, 20, 32}
Alignments == {8}
BumpAlignments == {1, 8}
BaseAddrs == {64}
MaxRetriesSet == {2}

\* ------------------------------------------------- constants of the program
U32_MOD == 2 ^ U32_BITS
U32_MAX == U32_MOD - 1
OVERHEAD == 24
HEADER_ALIGN == 8
ATOMIC_U64_SIZE == 8
ATOMIC_U64_ALIGN == 8
U32_SIZE == 4
U8_MOD == 256
USIZE_MOD == 2 ^ USIZE_BITS

\* ----------------------------------------------------------- pure helpers
Max2(a, b) == IF a >= b THEN a ELSE b

\* u32::saturating_add
saturating_add(a, b) == IF a + b > U32_MAX THEN U32_MAX ELSE a + b

\* wrapping u32 addition / subtraction
wrapping_add(a, b) == (a + b) % U32_MOD
wrapping_sub(a, b) == (a - b + U32_MOD) % U32_MOD

\* pointer::align_offset for byte pointers: bytes to add to reach alignment
align_offset(addr, align) == (align - (addr % align)) % align

encode_segment_node(next, size) == next * U32_MOD + size
decode_segment_node(val) == <<val \div U32_MOD, val % U32_MOD>>

EMPTY_SENTINEL == encode_segment_node(U32_MAX, U32_MAX)

\* ------------------------------------------------------------------- state
VARIABLES
  ptr,              \* Arena.ptr: base address of the backing region
  data_offset,      \* Arena.data_offset
  cap,              \* Arena.cap
  unify,            \* Arena.unify
  ro,               \* Arena.ro
  max_retries,      \* Arena.max_retries
  allocated,        \* Header.allocated
  sentinel,         \* Header.sentinel (encoded node word)
  discarded,        \* Header.discarded
  min_segment_size, \* Header.min_segment_size
  mem,              \* node words of the data area, by position relative to the data pointer
  th,               \* per-thread program counter and locals
  live,             \* bag of (offset, cap) descriptors handed out and not yet deallocated
  freed,            \* set of (offset, size) segments whose dealloc linked them and that were not popped
  pops,             \* set of (offset, length, matched) of the pops of the slow path; matched: a freed segment of that offset and size was in the list
  nops,             \* number of operations started
  crashed,          \* the process died (out-of-range access that faults)
  refs,             \* Memory.refs
  handles,          \* per-thread number of live handles
  teardowns,        \* number of times Memory::unmount ran
  cleared,          \* "no": never cleared; "fresh": cleared and no allocation since; "used"
  file              \* the file behind a file mapping: open mode, options, length, bytes

vars == <<ptr, data_offset, cap, unify, ro, max_retries, allocated, sentinel, discarded,
          min_segment_size, mem, th, live, freed, pops, nops, crashed,
          refs, handles, teardowns, cleared, file>>

config == <<ptr, data_offset, cap, unify, ro, max_retries, min_segment_size>>
rcvars == <<refs, handles, teardowns>>

\* Arena.read_data_ptr / Arena.write_data_ptr (NonNull::dangling(), address 1, when
\* the backend is the read-only mapping)
write_data_ptr == IF ro THEN 1 ELSE ptr + data_offset
read_data_ptr == ptr + data_offset

\* Arena::remaining
remaining == IF cap >= allocated THEN cap - allocated ELSE 0

\* position (relative to the data pointer) of the node word of the segment at offset
NodePos(offset) == offset + align_offset(read_data_ptr + offset, ATOMIC_U64_ALIGN)

\* word positions of the data area that the model tracks
Positions(dp, c) == {p \in 0..(c + 7) : (dp + p) % ATOMIC_U64_ALIGN = 0}

Tracked(p) == p \in DOMAIN mem

\* values an out-of-range load can produce
JunkWords == {0, EMPTY_SENTINEL, encode_segment_node(data_offset, 16)}

\* core::ptr::write_bytes(ptr, 0, size) seen from one u32 field stored (little
\* endian) at position a: the bytes of v that lie in [lo, hi) become 0
ByteOf(v, k) == (v \div (256 ^ k)) % 256
ZeroField(v, a, lo, hi) ==
  LET keep(k) == IF lo <= a + k /\ a + k < hi THEN 0 ELSE ByteOf(v, k) * (256 ^ k)
  IN  keep(0) + keep(1) + keep(2) + keep(3)

\* the data words after write_bytes(write_data_ptr + offset, 0, size); the size
\* field is the low half of the word, the next field the high half
Zeroed(m, offset, size) ==
  [p \in DOMAIN m |->
     LET w == decode_segment_node(m[p])
     IN  encode_segment_node(ZeroField(w[1], p + 4, offset, offset + size),
                             ZeroField(w[2], p, offset, offset + size))]

\* the values a load of the node word of `offset` can return (-1: the sentinel)
LoadSet(offset) ==
  IF offset = -1 THEN {sentinel}
  ELSE IF Tracked(NodePos(offset)) THEN {mem[NodePos(offset)]}
  ELSE JunkWords

StoreNode(m, offset, val) ==
  IF Tracked(NodePos(offset)) THEN [m EXCEPT ![NodePos(offset)] = val] ELSE m

\* ---------------------------------------------------------- thread records
IdleTh == [pc |-> "idle", size |-> 0, alc |-> 0, i |-> 0, head |-> 0, nnv |-> 0,
           off |-> 0, dsz |-> 0, cur |-> -1, prev |-> 0, nxt |-> 0, pnv |-> 0,
           ret |-> "none", op |-> "none", ty |-> <<0, 0>>, res |-> <<"none">>]

Ok(offset, c) == <<"ok", offset, c>>
InsufficientSpace(requested, available) == <<"InsufficientSpace", requested, available>>
ReadOnly == <<"ReadOnly">>
Null == <<"null">>

\* the call of thread t returns r; op keeps the name of the call that returned and ty
\* the type parameter it was made with
Finish(t, r) ==
  [th EXCEPT ![t] = [IdleTh EXCEPT !.res = r, !.op = th[t].op, !.ty = th[t].ty]]

\* call o of thread t returns r at once
Return(t, o, r) == [th EXCEPT ![t] = [IdleTh EXCEPT !.res = r, !.op = o]]

\* ------------------------------------------------ Memory::new_vec, new_in
\* the state after Arena::new(opts) with capacity c, maximum_alignment a
NewVec(c, a, msz, u, base, retries) ==
  LET vcap == IF u THEN saturating_add(c, OVERHEAD) ELSE saturating_add(c, a)
      header_ptr_offset == align_offset(base, HEADER_ALIGN)
      doff == IF u THEN header_ptr_offset + OVERHEAD ELSE a
  IN  /\ ptr = base
      /\ cap = vcap
      /\ data_offset = doff
      /\ unify = u
      /\ ro = FALSE
      /\ max_retries = retries
      /\ allocated = (IF u THEN header_ptr_offset + OVERHEAD ELSE 1)
      /\ sentinel = EMPTY_SENTINEL
      /\ discarded = 0
      /\ min_segment_size = msz
      /\ mem = [p \in Positions(base + doff, vcap) |-> 0]

\* no call was made yet
NoCalls ==
  /\ th = [t \in Threads |-> IdleTh]
  /\ live = EmptyBag
  /\ freed = {}
  /\ pops = {}
  /\ nops = 0
  /\ crashed = FALSE
  /\ cleared = "no"

\* the backend is not the mapping of a file that the model follows
NoFile == [phase |-> "none", shrink_on_drop |-> FALSE, lock |-> FALSE, locked |-> FALSE,
           len |-> 0, bytes |-> {}, wrote |-> <<>>, size0 |-> -1, hdr |-> <<>>]

GhostInit ==
  /\ NoCalls
  /\ file = NoFile

\* every thread holds one handle of the region
RcShared ==
  /\ refs = NThreads
  /\ handles = [t \in Threads |-> 1]
  /\ teardowns = 0

Init ==
  /\ \E u \in BOOLEAN, a \in Alignments, base \in BaseAddrs, r \in MaxRetriesSet :
       /\ base % Max2(a, HEADER_ALIGN) = 0
       /\ NewVec(Capacity, a, MinSegmentSize, u, base, r)
  /\ GhostInit
  /\ RcShared

\* --------------------------------------------------- Arena::alloc_bytes_in
\* a mutation of LastRetry: max_retries - 1 is taken as an integer, without the wrap
LastRetryUnwrapped(i) == i = max_retries - 1

\* a mutation of LastRetry: the counter is compared with max_retries
LastRetryLate(i) == i = max_retries % U8_MOD

\* the retry test of the slow-path loop: `if i == self.max_retries - 1` on u8
LastRetry(i) == i = (max_retries - 1 + U8_MOD) % U8_MOD

\* a slow-path attempt of thread t ended with error e
SlowErr(t, e) ==
  IF LastRetry(th[t].i)
  THEN Finish(t, e)
  ELSE [th EXCEPT ![t].i = (th[t].i + 1) % U8_MOD, ![t].pc = "slow",
                  ![t].head = 0, ![t].nnv = 0]

\* the outcomes of the retry test after an attempt ended with error e: with
\* max_retries = 0 the u8 subtraction max_retries - 1 overflows, which panics in a
\* build with overflow checks (at the first test of the call) and wraps to 255 in a
\* build without
RetryOutcomes(t, e) ==
  {SlowErr(t, e)} \cup
    (IF max_retries = 0 /\ th[t].i = 0 THEN {Finish(t, <<"panic">>)} ELSE {})

\* a mutation of CallAllocBytes: the zero-size check is missing
CallAllocBytesNoZeroCheck(t, n) ==
  /\ ~crashed /\ th[t].pc = "idle" /\ nops < MaxOps /\ handles[t] > 0
  /\ nops' = nops + 1
  /\ th' = IF ro THEN Return(t, "alloc_bytes", ReadOnly)
           ELSE [th EXCEPT ![t] = [IdleTh EXCEPT !.pc = "bump", !.op = "alloc_bytes",
                                                 !.size = n, !.alc = allocated]]
  /\ UNCHANGED <<config, file, allocated, sentinel, discarded, mem, live, freed, pops, crashed,
                 rcvars, cleared>>

\* entry: read-only check, zero-size check, first load of allocated
CallAllocBytes(t, n) ==
  /\ ~crashed /\ th[t].pc = "idle" /\ nops < MaxOps /\ handles[t] > 0
  /\ nops' = nops + 1
  /\ th' = IF ro THEN Return(t, "alloc_bytes", ReadOnly)
           ELSE IF n = 0 THEN Return(t, "alloc_bytes", Null)
           ELSE [th EXCEPT ![t] = [IdleTh EXCEPT !.pc = "bump", !.op = "alloc_bytes",
                                                 !.size = n, !.alc = allocated]]
  /\ UNCHANGED <<config, file, allocated, sentinel, discarded, mem, live, freed, pops, crashed,
                 rcvars, cleared>>

\* the first allocation handed out after a clear ends the "fresh" period
AfterOk == IF cleared = "fresh" THEN "used" ELSE cleared

\* a u32 sum a + b of the bump loop overflows: a build with overflow checks panics
\* there (a build without them goes on with the wrapped sum)
OverflowPanics(t, a, b) ==
  /\ a + b > U32_MAX
  /\ th' = Finish(t, <<"panic">>)
  /\ UNCHANGED <<allocated, live, cleared>>

\* one iteration of the bump loop: the capacity test and the compare_exchange_weak
Bump(t) ==
  /\ ~crashed /\ th[t].pc = "bump"
  /\ \/ OverflowPanics(t, th[t].alc, th[t].size)
     \/ LET want == wrapping_add(th[t].alc, th[t].size) IN
          IF want > cap
          THEN /\ th' = [th EXCEPT ![t].pc = "slow", ![t].i = 0, ![t].alc = 0]
               /\ UNCHANGED <<allocated, live, cleared>>
          ELSE IF allocated = th[t].alc
          THEN /\ allocated' = want
               /\ th' = Finish(t, Ok(th[t].alc, th[t].size))
               /\ live' = live (+) SetToBag({<<th[t].alc, th[t].size>>})
               /\ cleared' = AfterOk
          ELSE /\ th' = [th EXCEPT ![t].alc = allocated]
               /\ UNCHANGED <<allocated, live, cleared>>
  /\ UNCHANGED <<config, file, sentinel, discarded, mem, freed, pops, nops, crashed, rcvars>>

\* ---------------------------------------------------- Arena::alloc_slow_path
\* load of the sentinel and the three tests on it
SlowLoad(t) ==
  /\ ~crashed /\ th[t].pc = "slow"
  /\ LET d == decode_segment_node(sentinel)
         next == d[1]
         node_size == d[2]
     IN  IF next = U32_MAX /\ node_size = U32_MAX
         THEN th' = [th EXCEPT ![t].pc = "slow_remaining"]
         ELSE IF node_size = 0
         THEN UNCHANGED th
         ELSE IF th[t].size > node_size
         THEN th' \in RetryOutcomes(t, InsufficientSpace(th[t].size, node_size))
         ELSE th' = [th EXCEPT ![t].pc = "tomb", ![t].head = sentinel]
  /\ UNCHANGED <<config, file, allocated, sentinel, discarded, mem, live, freed, pops, nops,
                 crashed, rcvars, cleared>>

\* the empty-list error: available is self.remaining(), a load of allocated
SlowRemaining(t) ==
  /\ ~crashed /\ th[t].pc = "slow_remaining"
  /\ th' \in RetryOutcomes(t, InsufficientSpace(th[t].size, remaining))
  /\ UNCHANGED <<config, file, allocated, sentinel, discarded, mem, live, freed, pops, nops,
                 crashed, rcvars, cleared>>

\* CAS sentinel: head -> encode(next, 0)
Tombstone(t) ==
  /\ ~crashed /\ th[t].pc = "tomb"
  /\ LET next == decode_segment_node(th[t].head)[1] IN
       IF sentinel = th[t].head
       THEN /\ sentinel' = encode_segment_node(next, 0)
            /\ th' = [th EXCEPT ![t].pc = "readnext"]
       ELSE /\ th' = [th EXCEPT ![t].pc = "slow", ![t].head = 0]
            /\ UNCHANGED sentinel
  /\ UNCHANGED <<config, file, allocated, discarded, mem, live, freed, pops, nops, crashed,
                 rcvars, cleared>>

\* next_node.load(): the node word of the popped segment
ReadNext(t) ==
  /\ ~crashed /\ th[t].pc = "readnext"
  /\ \E v \in LoadSet(decode_segment_node(th[t].head)[1]) :
       th' = [th EXCEPT ![t].pc = "unlink", ![t].nnv = v]
  /\ UNCHANGED <<config, file, allocated, sentinel, discarded, mem, live, freed, pops, nops,
                 crashed, rcvars, cleared>>

\* CAS sentinel: encode(next, 0) -> next_node_val; on success the tail goes to dealloc
Unlink(t) ==
  /\ ~crashed /\ th[t].pc = "unlink"
  /\ LET d == decode_segment_node(th[t].head)
         next == d[1]
         node_size == d[2]
     IN  IF sentinel = encode_segment_node(next, 0)
         THEN /\ sentinel' = th[t].nnv
              /\ th' = [th EXCEPT ![t].pc = "de_validate", ![t].ret = "slow",
                                  ![t].off = wrapping_add(next, th[t].size),
                                  ![t].dsz = wrapping_sub(node_size, th[t].size),
                                  ![t].nnv = 0]
              /\ freed' = {f \in freed : f[1] # next}
              /\ pops' = pops \cup {<<next, node_size, <<next, node_size>> \in freed>>}
         ELSE /\ th' = [th EXCEPT ![t].pc = "slow", ![t].head = 0, ![t].nnv = 0]
              /\ UNCHANGED <<sentinel, freed, pops>>
  /\ UNCHANGED <<config, file, allocated, discarded, mem, live, nops, crashed, rcvars, cleared>>

\* ------------------------------------------------------------ Arena::dealloc
\* a mutation of validate_segment: `want > size` in place of `want >= size`
ValidateSegmentLax(offset, size) ==
  LET aligned_offset == align_offset(write_data_ptr + offset, ATOMIC_U64_ALIGN)
      want == aligned_offset + ATOMIC_U64_SIZE + U32_SIZE
  IN  ~(want > size) /\ ~(size < min_segment_size)

\* Arena::validate_segment
validate_segment(offset, size) ==
  LET aligned_offset == align_offset(write_data_ptr + offset, ATOMIC_U64_ALIGN)
      want == aligned_offset + ATOMIC_U64_SIZE + U32_SIZE
  IN  ~(want >= size) /\ ~(size < min_segment_size)

\* dealloc of thread t returns: to the caller, or into the slow path that called it,
\* which then returns Ok(Allocated { offset: next, cap: size })
DeallocReturn(t) ==
  IF th[t].ret = "slow"
  THEN Finish(t, Ok(decode_segment_node(th[t].head)[1], th[t].size))
  ELSE Finish(t, <<"freed">>)

LiveAfterReturn(t) ==
  IF th[t].ret = "slow"
  THEN live (+) SetToBag({<<decode_segment_node(th[t].head)[1], th[t].size>>})
  ELSE live

ClearedAfterReturn(t) == IF th[t].ret = "slow" THEN AfterOk ELSE cleared

\* a holder of a live allocation gives it back
CallDealloc(t, a) ==
  /\ ~crashed /\ th[t].pc = "idle" /\ nops < MaxOps /\ handles[t] > 0
  /\ BagIn(a, live)
  /\ nops' = nops + 1
  /\ live' = live (-) SetToBag({a})
  /\ th' = [th EXCEPT ![t] = [IdleTh EXCEPT !.pc = "de_validate", !.ret = "user", !.op = "dealloc",
                                            !.off = a[1], !.dsz = a[2]]]
  /\ UNCHANGED <<config, file, allocated, sentinel, discarded, mem, freed, pops, crashed,
                 rcvars, cleared>>

\* validate_segment, then either the branch to discard or write_bytes(ptr, 0, size)
DeallocValidate(t) ==
  /\ ~crashed /\ th[t].pc = "de_validate"
  /\ IF validate_segment(th[t].off, th[t].dsz)
     THEN /\ mem' = Zeroed(mem, th[t].off, th[t].dsz)
          /\ th' = [th EXCEPT ![t].pc = "de_find", ![t].cur = -1, ![t].prev = 0]
     ELSE /\ th' = [th EXCEPT ![t].pc = "de_discard"]
          /\ UNCHANGED mem
  /\ UNCHANGED <<config, file, allocated, sentinel, discarded, live, freed, pops, nops, crashed,
                 rcvars, cleared>>

\* Arena::discard and the return of dealloc
DeallocDiscard(t) ==
  /\ ~crashed /\ th[t].pc = "de_discard"
  /\ discarded' = wrapping_add(discarded, th[t].dsz)
  /\ th' = DeallocReturn(t)
  /\ live' = LiveAfterReturn(t)
  /\ cleared' = ClearedAfterReturn(t)
  /\ UNCHANGED <<config, file, allocated, sentinel, mem, freed, pops, nops, crashed, rcvars>>

\* one iteration of the loop of Arena::find_free_list_position(size)
FindStep(t) ==
  /\ ~crashed /\ th[t].pc = "de_find"
  /\ \E current_node \in LoadSet(th[t].cur) :
       LET d == decode_segment_node(current_node)
           current_next == d[1]
           current_node_size == d[2]
       IN  IF current_next = U32_MAX
           THEN th' = [th EXCEPT ![t].pc = "de_write", ![t].nxt = U32_MAX]
           ELSE IF current_node_size = 0
           THEN UNCHANGED th
           ELSE IF th[t].dsz >= current_node_size
           THEN th' = [th EXCEPT ![t].pc = "de_write", ![t].nxt = current_next]
           ELSE th' = [th EXCEPT ![t].prev = current_next, ![t].cur = current_next]
  /\ UNCHANGED <<config, file, allocated, sentinel, discarded, mem, live, freed, pops, nops,
                 crashed, rcvars, cleared>>

\* Arena::write_segment_node(next_node_offset, offset, size)
WriteSegmentNode(t) ==
  /\ ~crashed /\ th[t].pc = "de_write"
  /\ mem' = StoreNode(mem, th[t].off, encode_segment_node(th[t].nxt, th[t].dsz))
  /\ th' = [th EXCEPT ![t].pc = "de_loadprev"]
  /\ UNCHANGED <<config, file, allocated, sentinel, discarded, live, freed, pops, nops, crashed,
                 rcvars, cleared>>

\* the node the new segment is linked behind: prev == 0 stands for None (the sentinel)
PrevNode(t) == IF th[t].prev = 0 THEN -1 ELSE th[t].prev

\* a mutation of LoadPrev: the tombstone test on the loaded value is missing
LoadPrevNoTombstoneTest(t) ==
  /\ ~crashed /\ th[t].pc = "de_loadprev"
  /\ \E prev_node_val \in LoadSet(PrevNode(t)) :
       th' = [th EXCEPT ![t].pc = "de_cas", ![t].pnv = prev_node_val]
  /\ UNCHANGED <<config, file, allocated, sentinel, discarded, mem, live, freed, pops, nops,
                 crashed, rcvars, cleared>>

\* prev_node.load() and the tombstone test on it
LoadPrev(t) ==
  /\ ~crashed /\ th[t].pc = "de_loadprev"
  /\ \E prev_node_val \in LoadSet(PrevNode(t)) :
       IF decode_segment_node(prev_node_val)[2] = 0
       THEN th' = [th EXCEPT ![t].pc = "de_find", ![t].cur = -1, ![t].prev = 0, ![t].nxt = 0]
       ELSE th' = [th EXCEPT ![t].pc = "de_cas", ![t].pnv = prev_node_val]
  /\ UNCHANGED <<config, file, allocated, sentinel, discarded, mem, live, freed, pops, nops,
                 crashed, rcvars, cleared>>

\* prev_node.compare_exchange(prev_node_val, encode(offset, size))
LinkCas(t) ==
  /\ ~crashed /\ th[t].pc = "de_cas"
  /\ LET new == encode_segment_node(th[t].off, th[t].dsz)
         ok == /\ th' = DeallocReturn(t)
               /\ live' = LiveAfterReturn(t)
               /\ cleared' = ClearedAfterReturn(t)
               /\ freed' = freed \cup {<<th[t].off, th[t].dsz>>}
         retry == /\ th' = [th EXCEPT ![t].pc = "de_find", ![t].cur = -1, ![t].prev = 0,
                                      ![t].nxt = 0, ![t].pnv = 0]
                  /\ UNCHANGED <<live, freed, cleared>>
     IN  IF PrevNode(t) = -1
         THEN IF sentinel = th[t].pnv
              THEN sentinel' = new /\ ok /\ UNCHANGED mem
              ELSE retry /\ UNCHANGED <<sentinel, mem>>
         ELSE IF Tracked(NodePos(th[t].prev))
         THEN IF mem[NodePos(th[t].prev)] = th[t].pnv
              THEN mem' = [mem EXCEPT ![NodePos(th[t].prev)] = new] /\ ok /\ UNCHANGED sentinel
              ELSE retry /\ UNCHANGED <<sentinel, mem>>
         ELSE (ok \/ retry) /\ UNCHANGED <<sentinel, mem>>
  /\ UNCHANGED <<config, file, allocated, discarded, pops, nops, crashed, rcvars>>

\* an access outside the mapped pages faults and ends the process
WildAccess(t) ==
  \/ th[t].pc = "readnext" /\ ~Tracked(NodePos(decode_segment_node(th[t].head)[1]))
  \/ th[t].pc = "de_find" /\ th[t].cur # -1 /\ ~Tracked(NodePos(th[t].cur))
  \/ th[t].pc \in {"de_loadprev", "de_cas"} /\ th[t].prev # 0 /\ ~Tracked(NodePos(th[t].prev))
  \/ th[t].pc = "de_write" /\ ~Tracked(NodePos(th[t].off))

Fault(t) ==
  /\ ~crashed /\ WildAccess(t)
  /\ crashed' = TRUE
  /\ UNCHANGED <<config, file, allocated, sentinel, discarded, mem, th, live, freed, pops, nops,
                 rcvars, cleared>>

Next ==
  \/ \E t \in Threads, n \in Sizes : CallAllocBytes(t, n)
  \/ \E t \in Threads : Bump(t)
  \/ \E t \in Threads : SlowLoad(t)
  \/ \E t \in Threads : SlowRemaining(t)
  \/ \E t \in Threads : Tombstone(t)
  \/ \E t \in Threads : ReadNext(t)
  \/ \E t \in Threads : Unlink(t)
  \/ \E t \in Threads, a \in BagToSet(live) : CallDealloc(t, a)
  \/ \E t \in Threads : DeallocValidate(t)
  \/ \E t \in Threads : DeallocDiscard(t)
  \/ \E t \in Threads : FindStep(t)
  \/ \E t \in Threads : WriteSegmentNode(t)
  \/ \E t \in Threads : LoadPrev(t)
  \/ \E t \in Threads : LinkCas(t)
  \/ \E t \in Threads : Fault(t)

Spec == Init /\ [][Next]_vars

\* -------------------------------------------------------------- Arena::clear
\* a mutation of Clear: the store to the sentinel is missing
ClearKeepsList(t) ==
  /\ ~crashed /\ \A u \in Threads : th[u].pc = "idle"
  /\ handles[t] > 0 /\ nops < MaxOps
  /\ nops' = nops + 1
  /\ IF ro
     THEN /\ th' = Return(t, "clear", ReadOnly)
          /\ UNCHANGED <<allocated, sentinel, discarded, mem, live, freed, pops, crashed, cleared>>
     ELSE /\ allocated' = data_offset
          /\ UNCHANGED sentinel
          /\ discarded' = 0
          /\ mem' = Zeroed(mem, 0, cap)
          /\ \E fault \in BOOLEAN : crashed' = (fault /\ data_offset > 0)
          /\ th' = Return(t, "clear", <<"cleared">>)
          /\ live' = EmptyBag
          /\ freed' = {}
          /\ pops' = {}
          /\ cleared' = "fresh"
  /\ UNCHANGED <<config, file, rcvars>>

\* the caller's contract: no concurrent user, and no pointer obtained earlier is used
\* afterwards.  write_bytes(write_data_ptr, 0, cap) runs data_offset bytes past the end
\* of the region: the stores land outside the region, or the process faults
Clear(t) ==
  /\ ~crashed /\ \A u \in Threads : th[u].pc = "idle"
  /\ handles[t] > 0 /\ nops < MaxOps
  /\ nops' = nops + 1
  /\ IF ro
     THEN /\ th' = Return(t, "clear", ReadOnly)
          /\ UNCHANGED <<allocated, sentinel, discarded, mem, live, freed, pops, crashed, cleared>>
     ELSE /\ allocated' = data_offset
          /\ sentinel' = encode_segment_node(U32_MAX, U32_MAX)
          /\ discarded' = 0
          /\ mem' = Zeroed(mem, 0, cap)
          /\ \E fault \in BOOLEAN : crashed' = (fault /\ data_offset > 0)
          /\ th' = Return(t, "clear", <<"cleared">>)
          /\ live' = EmptyBag
          /\ freed' = {}
          /\ pops' = {}
          /\ cleared' = "fresh"
  /\ UNCHANGED <<config, file, rcvars>>

\* one user at a time: the calls of a single thread, clear included
NextSeq ==
  \/ \E n \in Sizes : CallAllocBytes(1, n)
  \/ Bump(1)
  \/ SlowLoad(1)
  \/ SlowRemaining(1)
  \/ Tombstone(1)
  \/ ReadNext(1)
  \/ Unlink(1)
  \/ \E a \in BagToSet(live) : CallDealloc(1, a)
  \/ DeallocValidate(1)
  \/ DeallocDiscard(1)
  \/ FindStep(1)
  \/ WriteSegmentNode(1)
  \/ LoadPrev(1)
  \/ LinkCas(1)
  \/ Fault(1)
  \/ Clear(1)

SpecSeq == Init /\ [][NextSeq]_vars

\* ------------------------------------------------------ bump-only behaviours
\* Arena::new with unify and maximum_alignment free, then alloc_bytes calls only
InitBump ==
  /\ \E u \in BOOLEAN, a \in BumpAlignments, base \in BaseAddrs, r \in MaxRetriesSet :
       /\ base % Max2(a, HEADER_ALIGN) = 0
       /\ NewVec(Capacity, a, MinSegmentSize, u, base, r)
  /\ GhostInit
  /\ RcShared

NextBump ==
  \/ \E t \in Threads, n \in Sizes : CallAllocBytes(t, n)
  \/ \E t \in Threads : Bump(t)
  \/ \E t \in Threads : SlowLoad(t)
  \/ \E t \in Threads : SlowRemaining(t)

SpecBump == InitBump /\ [][NextBump]_vars

\* ------------------------------------------------------------ Arena::alloc<T>
\* the types alloc is called with, as <<size_of, align_of>>
Types == {<<0, 1>>, <<4, 4>>, <<8, 8>>, <<16, 8>>}

\* Arena::get_pointer and Arena::get_pointer_mut (past its assert)
get_pointer(offset) == IF offset = 0 THEN ptr ELSE read_data_ptr + offset
get_pointer_mut(offset) == IF offset = 0 THEN ptr ELSE write_data_ptr + offset

\* a mutation of pad: the room for the alignment is left out
PadSizeOnly(T) == T[1]

\* Arena::pad
pad(T) == T[1] + T[2] - 1

\* Arena::get_aligned_pointer::<T> with align_of::<T>() = align; ptr::null() is 0
get_aligned_pointer(offset, align) ==
  IF offset = 0 THEN 0
  ELSE read_data_ptr + offset + align_offset(read_data_ptr + offset, align)

\* alloc::<T>: the return for a zero-sized T, then the entry of alloc_in: read-only
\* check and first load of allocated
CallAlloc(t, T) ==
  /\ ~crashed /\ th[t].pc = "idle" /\ nops < MaxOps /\ handles[t] > 0
  /\ nops' = nops + 1
  /\ th' = IF T[1] = 0 THEN Return(t, "alloc", <<"ok_zst">>)
           ELSE IF ro THEN Return(t, "alloc", ReadOnly)
           ELSE [th EXCEPT ![t] = [IdleTh EXCEPT !.pc = "bump_t", !.op = "alloc",
                                                 !.ty = T, !.alc = allocated]]
  /\ UNCHANGED <<config, file, allocated, sentinel, discarded, mem, live, freed, pops, crashed,
                 rcvars, cleared>>

\* a mutation of BumpT: the bump path reserves the padded size pad::<T>()
BumpTPadded(t) ==
  /\ ~crashed /\ th[t].pc = "bump_t"
  /\ LET size == pad(th[t].ty)
         want == wrapping_add(th[t].alc, size)
     IN  IF want > cap
         THEN /\ th' = [th EXCEPT ![t].pc = "slow", ![t].i = 0, ![t].alc = 0,
                                  ![t].size = pad(th[t].ty)]
              /\ UNCHANGED <<allocated, live, cleared>>
         ELSE IF allocated = th[t].alc
         THEN /\ allocated' = want
              /\ th' = Finish(t, Ok(th[t].alc, size))
              /\ live' = live (+) SetToBag({<<th[t].alc, size>>})
              /\ cleared' = AfterOk
         ELSE /\ th' = [th EXCEPT ![t].alc = allocated]
              /\ UNCHANGED <<allocated, live, cleared>>
  /\ UNCHANGED <<config, file, sentinel, discarded, mem, freed, pops, nops, crashed, rcvars>>

\* one iteration of the bump loop of alloc_in; when it gives up the slow path is
\* entered with the padded size
BumpT(t) ==
  /\ ~crashed /\ th[t].pc = "bump_t"
  /\ LET aligned_offset == align_offset(get_pointer(th[t].alc), th[t].ty[2])
         size == wrapping_add(aligned_offset, th[t].ty[1])
         want == wrapping_add(th[t].alc, size)
     IN  \/ OverflowPanics(t, th[t].alc, aligned_offset + th[t].ty[1])
         \/ IF want > cap
            THEN /\ th' = [th EXCEPT ![t].pc = "slow", ![t].i = 0, ![t].alc = 0,
                                     ![t].size = pad(th[t].ty)]
                 /\ UNCHANGED <<allocated, live, cleared>>
            ELSE IF allocated = th[t].alc
            THEN /\ allocated' = want
                 /\ th' = Finish(t, Ok(th[t].alc, size))
                 /\ live' = live (+) SetToBag({<<th[t].alc, size>>})
                 /\ cleared' = AfterOk
            ELSE /\ th' = [th EXCEPT ![t].alc = allocated]
                 /\ UNCHANGED <<allocated, live, cleared>>
  /\ UNCHANGED <<config, file, sentinel, discarded, mem, freed, pops, nops, crashed, rcvars>>

\* ------------------------------------------- pointers, size, capacity
Offsets == {0, 24, 40}

\* the calls below keep their argument in the field off of the returned record

CallGetPointer(t, offset) ==
  /\ ~crashed /\ th[t].pc = "idle" /\ nops < MaxOps /\ handles[t] > 0
  /\ nops' = nops + 1
  /\ th' = [Return(t, "get_pointer", <<"ptr", get_pointer(offset)>>) EXCEPT ![t].off = offset]
  /\ UNCHANGED <<config, file, allocated, sentinel, discarded, mem, live, freed, pops, crashed,
                 rcvars, cleared>>

\* assert!(!self.ro) panics on a read-only region
CallGetPointerMut(t, offset) ==
  /\ ~crashed /\ th[t].pc = "idle" /\ nops < MaxOps /\ handles[t] > 0
  /\ nops' = nops + 1
  /\ th' = [Return(t, "get_pointer_mut",
                   IF ro THEN <<"panic">> ELSE <<"ptr", get_pointer_mut(offset)>>)
             EXCEPT ![t].off = offset]
  /\ UNCHANGED <<config, file, allocated, sentinel, discarded, mem, live, freed, pops, crashed,
                 rcvars, cleared>>

\* pointer::offset_from for byte pointers (an isize), and the cast `as usize`
offset_from(p, origin) == p - origin
as_usize(d) == (d + USIZE_MOD) % USIZE_MOD

\* Arena::offset(ptr), called with the pointer the thread's get_pointer_mut returned
CallOffset(t) ==
  /\ ~crashed /\ th[t].pc = "idle" /\ nops < MaxOps /\ handles[t] > 0
  /\ th[t].op = "get_pointer_mut" /\ th[t].res[1] = "ptr"
  /\ nops' = nops + 1
  /\ th' = [Return(t, "offset", <<"usize", as_usize(offset_from(th[t].res[2], write_data_ptr))>>)
             EXCEPT ![t].off = th[t].off]
  /\ UNCHANGED <<config, file, allocated, sentinel, discarded, mem, live, freed, pops, crashed,
                 rcvars, cleared>>

\* Arena::size
CallSize(t) ==
  /\ ~crashed /\ th[t].pc = "idle" /\ nops < MaxOps /\ handles[t] > 0
  /\ nops' = nops + 1
  /\ th' = Return(t, "size", <<"usize", allocated>>)
  /\ UNCHANGED <<config, file, allocated, sentinel, discarded, mem, live, freed, pops, crashed,
                 rcvars, cleared>>

\* Arena::capacity
CallCapacity(t) ==
  /\ ~crashed /\ th[t].pc = "idle" /\ nops < MaxOps /\ handles[t] > 0
  /\ nops' = nops + 1
  /\ th' = Return(t, "capacity", <<"usize", cap>>)
  /\ UNCHANGED <<config, file, allocated, sentinel, discarded, mem, live, freed, pops, crashed,
                 rcvars, cleared>>

\* ------------------------------------------------- Arena::map (read-only)
\* what a writable session left in the file: <<allocated, sentinel, discarded, node
\* words>> with offsets relative to OVERHEAD (the header sits at the page-aligned base):
\* a fresh region, regions after alloc_bytes calls, and a region after alloc_bytes(16)
\* and the dealloc of that range
Persisted ==
  {<<OVERHEAD + k, EMPTY_SENTINEL, 0, {}>> : k \in {0, 16, 32, 48, 68}}
    \cup {<<OVERHEAD + 16, encode_segment_node(OVERHEAD, 16), 0,
            {<<OVERHEAD, encode_segment_node(U32_MAX, 16)>>}>>}

\* Memory::map followed by new_in(memory, 0, true, true) on a file of len bytes
Map(len, base, h, msz) ==
  LET header_ptr_offset == align_offset(base, HEADER_ALIGN)
      doff == header_ptr_offset + OVERHEAD
  IN  /\ ptr = base
      /\ cap = len
      /\ data_offset = doff
      /\ unify = TRUE
      /\ ro = TRUE
      /\ max_retries = 0
      /\ allocated = h[1]
      /\ sentinel = h[2]
      /\ discarded = h[3]
      /\ min_segment_size = msz
      /\ mem = [p \in Positions(base + doff, len) |->
                  IF \E w \in h[4] : w[1] = p
                  THEN (CHOOSE w \in h[4] : w[1] = p)[2] ELSE 0]

InitRO ==
  /\ \E base \in BaseAddrs, h \in Persisted :
       Map(saturating_add(Capacity, OVERHEAD), base, h, MinSegmentSize)
  /\ GhostInit
  /\ RcShared

NextRO ==
  \/ \E t \in Threads, n \in Sizes \cup {0} : CallAllocBytes(t, n)
  \/ \E t \in Threads, T \in Types : CallAlloc(t, T)
  \/ \E t \in Threads : Clear(t)
  \/ \E t \in Threads, offset \in Offsets : CallGetPointerMut(t, offset)
  \/ \E t \in Threads, offset \in Offsets : CallGetPointer(t, offset)
  \/ \E t \in Threads : CallSize(t)
  \/ \E t \in Threads : CallCapacity(t)

SpecRO == InitRO /\ [][NextRO]_vars

\* ------------------------------------------- impl Clone / impl Drop for Arena
\* Memory.refs after a constructor: AtomicUsize::new(1), the handle held by thread 1
RcFresh ==
  /\ refs = 1
  /\ handles = [t \in Threads |-> IF t = 1 THEN 1 ELSE 0]
  /\ teardowns = 0

\* clone(): refs.fetch_add(1); the copy shares every field.  (The abort for an old
\* count above usize::MAX >> 1 is out of reach of MaxHandles.)
Clone(t) ==
  /\ ~crashed /\ th[t].pc = "idle" /\ handles[t] > 0 /\ refs < MaxHandles
  /\ refs' = refs + 1
  /\ handles' = [handles EXCEPT ![t] = @ + 1]
  /\ th' = Return(t, "clone", <<"cloned">>)
  /\ UNCHANGED <<config, file, allocated, sentinel, discarded, mem, live, freed, pops, nops,
                 crashed, teardowns, cleared>>

\* Arena is Send: a handle moves from thread t to thread u
SendHandle(t, u) ==
  /\ ~crashed /\ th[t].pc = "idle" /\ handles[t] > 0 /\ t # u
  /\ handles' = [handles EXCEPT ![t] = @ - 1, ![u] = @ + 1]
  /\ UNCHANGED <<config, file, allocated, sentinel, discarded, mem, th, live, freed, pops, nops,
                 crashed, refs, teardowns, cleared>>

\* a mutation of DropArena: the old value of the counter is compared with 0
DropArenaOffByOne(t) ==
  /\ ~crashed /\ th[t].pc = "idle" /\ handles[t] > 0
  /\ refs' = refs - 1
  /\ handles' = [handles EXCEPT ![t] = @ - 1]
  /\ th' = IF refs # 0
           THEN Return(t, "drop", <<"dropped">>)
           ELSE [th EXCEPT ![t] = [IdleTh EXCEPT !.pc = "unmount", !.op = "drop"]]
  /\ UNCHANGED <<config, file, allocated, sentinel, discarded, mem, live, freed, pops, nops,
                 crashed, teardowns, cleared>>

\* drop(), first part: refs.fetch_sub(1) and the test of the value it returns
DropArena(t) ==
  /\ ~crashed /\ th[t].pc = "idle" /\ handles[t] > 0
  /\ refs' = refs - 1
  /\ handles' = [handles EXCEPT ![t] = @ - 1]
  /\ th' = IF refs # 1
           THEN Return(t, "drop", <<"dropped">>)
           ELSE [th EXCEPT ![t] = [IdleTh EXCEPT !.pc = "unmount", !.op = "drop"]]
  /\ UNCHANGED <<config, file, allocated, sentinel, discarded, mem, live, freed, pops, nops,
                 crashed, teardowns, cleared>>

\* Memory::unmount on a file mapping: with shrink_on_drop the file is cut to
\* `allocated` bytes when that is less than cap (on the file of a read-only mapping
\* set_len can fail, which is ignored); the lock is released; size0 keeps the value
\* of allocated at the end of the writable session, hdr the header fields the file
\* holds then
Unmounted(f) ==
  LET used == IF f.shrink_on_drop /\ allocated < cap THEN allocated ELSE f.len
      lens == IF f.phase = "ro" THEN {f.len, used} ELSE {used}
  IN  {[f EXCEPT !.phase = "closed", !.len = l, !.locked = FALSE,
                 !.bytes = {b \in f.bytes : b[1] < l},
                 !.size0 = IF f.phase = "mut" THEN allocated ELSE @,
                 !.hdr = IF f.phase = "mut" THEN <<allocated, sentinel, discarded>> ELSE @] :
         l \in lens}

\* drop(), second part: Box::from_raw(memory) and memory.unmount()
Unmount(t) ==
  /\ ~crashed /\ th[t].pc = "unmount"
  /\ teardowns' = teardowns + 1
  /\ th' = Finish(t, <<"unmounted">>)
  /\ IF file.phase \in {"mut", "ro"} THEN file' \in Unmounted(file) ELSE UNCHANGED file
  /\ UNCHANGED <<config, allocated, sentinel, discarded, mem, live, freed, pops, nops,
                 crashed, refs, handles, cleared>>

InitRc ==
  /\ \E u \in BOOLEAN, a \in Alignments, base \in BaseAddrs, r \in MaxRetriesSet :
       /\ base % Max2(a, HEADER_ALIGN) = 0
       /\ NewVec(Capacity, a, MinSegmentSize, u, base, r)
  /\ GhostInit
  /\ RcFresh

\* handles are cloned, moved, used and dropped
NextRc ==
  \/ \E t \in Threads : Clone(t)
  \/ \E t, u \in Threads : SendHandle(t, u)
  \/ \E t \in Threads : DropArena(t)
  \/ \E t \in Threads : Unmount(t)
  \/ \E t \in Threads : CallAllocBytes(t, 32)
  \/ \E t \in Threads : Bump(t)
  \/ \E t \in Threads : SlowLoad(t)
  \/ \E t \in Threads : SlowRemaining(t)

SpecRc == InitRc /\ [][NextRc]_vars

\* ------------------------------------- Arena::map_mut, Arena::map_anon, Arena::new
\* length of the file or of the anonymous mapping
MapLen == Capacity + OVERHEAD

\* Memory::map_mut on a new file of len bytes, then new_in(memory, retries, true, false);
\* None when the mapping is shorter than the header
MapMut(len, base, msz, retries) ==
  LET header_ptr_offset == align_offset(base, HEADER_ALIGN)
      doff == header_ptr_offset + OVERHEAD
  IN  /\ len >= OVERHEAD
      /\ ptr = base
      /\ cap = len % U32_MOD
      /\ data_offset = doff
      /\ unify = TRUE
      /\ ro = FALSE
      /\ max_retries = retries
      /\ allocated = doff
      /\ sentinel = EMPTY_SENTINEL
      /\ discarded = 0
      /\ min_segment_size = msz
      /\ mem = [p \in Positions(base + doff, len) |-> 0]

\* Memory::map_anon on a mapping of len bytes, then new_in(memory, retries, u, false)
MapAnon(len, a, msz, u, base, retries) ==
  LET header_ptr_offset == align_offset(base, HEADER_ALIGN)
      doff == IF u THEN header_ptr_offset + OVERHEAD ELSE a
  IN  /\ IF u THEN len >= OVERHEAD ELSE len >= a
      /\ ptr = base
      /\ cap = len % U32_MOD
      /\ data_offset = doff
      /\ unify = u
      /\ ro = FALSE
      /\ max_retries = retries
      /\ allocated = (IF u THEN header_ptr_offset + OVERHEAD ELSE 1)
      /\ sentinel = EMPTY_SENTINEL
      /\ discarded = 0
      /\ min_segment_size = msz
      /\ mem = [p \in Positions(base + doff, len) |-> 0]

\* a region fresh from any of the writable constructors
InitCtor ==
  /\ \E u \in BOOLEAN, a \in BumpAlignments, base \in BaseAddrs, r \in MaxRetriesSet :
       /\ base % Max2(a, HEADER_ALIGN) = 0
       /\ \/ NewVec(Capacity, a, MinSegmentSize, u, base, r)
          \/ MapAnon(MapLen, a, MinSegmentSize, u, base, r)
          \/ MapMut(MapLen, base, MinSegmentSize, r)
  /\ GhostInit
  /\ RcShared

SpecCtor == InitCtor /\ [][NextSeq]_vars

\* ------------------------------------------- Arena::set_minimum_segment_size
\* the values the minimum segment size is set to
MinSizes == {MinSegmentSize, 24}

\* set_minimum_segment_size(size): store of `size as u32`
SetMinimumSegmentSize(t, v) ==
  /\ ~crashed /\ ~ro /\ th[t].pc = "idle" /\ handles[t] > 0
  /\ min_segment_size' = v % U32_MOD
  /\ UNCHANGED <<ptr, data_offset, cap, unify, ro, max_retries, file, allocated, sentinel,
                 discarded, mem, th, live, freed, pops, nops, crashed, rcvars, cleared>>

\* the calls of thread 1 while thread 2 sets the minimum segment size
NextMin ==
  \/ NextSeq
  \/ \E v \in MinSizes : SetMinimumSegmentSize(2, v)

SpecMin == Init /\ [][NextMin]_vars

\* ------------------------------------------------- persistence of a file mapping
\* the bytes the user writes into an allocation
Payload == <<1, 2, 3>>

\* file position of an address of the mapping
FilePos(addr) == addr - ptr

\* Arena::map_mut on a new file with any setting of shrink_on_drop and lock
InitPersist ==
  /\ \E base \in BaseAddrs, r \in MaxRetriesSet, sh \in BOOLEAN, lk \in BOOLEAN :
       /\ MapMut(MapLen, base, MinSegmentSize, r)
       /\ file = [NoFile EXCEPT !.phase = "mut", !.shrink_on_drop = sh, !.lock = lk,
                                !.locked = lk, !.len = MapLen]
  /\ NoCalls
  /\ RcFresh

\* the holder of the range alloc_bytes just returned copies Payload to
\* get_pointer_mut(offset); stores behind the end of the mapping do not reach the
\* file, and fault when they leave the mapped pages
WriteBytes(t) ==
  /\ ~crashed /\ th[t].pc = "idle" /\ handles[t] > 0
  /\ file.phase = "mut" /\ file.wrote = <<>>
  /\ th[t].op = "alloc_bytes" /\ th[t].res[1] = "ok" /\ th[t].res[3] >= Len(Payload)
  /\ LET p0 == FilePos(get_pointer_mut(th[t].res[2])) IN
       /\ file' = [file EXCEPT !.wrote = <<th[t].res[2], Len(Payload)>>,
                               !.bytes = {<<p0 + k - 1, Payload[k]>> : k \in
                                            {j \in 1..Len(Payload) : p0 + j - 1 < cap}}]
       /\ \E fault \in BOOLEAN : crashed' = (fault /\ p0 + Len(Payload) > cap)
  /\ UNCHANGED <<config, allocated, sentinel, discarded, mem, th, live, freed, pops, nops,
                 rcvars, cleared>>

\* Arena::map on the closed file: Memory::map and new_in(memory, 0, true, true); the
\* header is the one the file holds; the descriptors of the session before are gone
\* with its handles
Reopen ==
  /\ ~crashed /\ file.phase = "closed" /\ ~file.locked /\ file.len >= OVERHEAD
  /\ teardowns < MaxSessions
  /\ \E base \in BaseAddrs :
       LET header_ptr_offset == align_offset(base, HEADER_ALIGN)
           doff == header_ptr_offset + OVERHEAD
       IN  /\ ptr' = base
           /\ cap' = file.len % U32_MOD
           /\ data_offset' = doff
           /\ mem' = [p \in Positions(base + doff, file.len) |->
                        IF p \in DOMAIN mem THEN mem[p] ELSE 0]
  /\ unify' = TRUE /\ ro' = TRUE /\ max_retries' = 0
  /\ refs' = 1
  /\ handles' = [t \in Threads |-> IF t = 1 THEN 1 ELSE 0]
  /\ th' = [t \in Threads |-> IF t = 1 THEN [IdleTh EXCEPT !.op = "map", !.res = <<"mapped">>]
                                ELSE IdleTh]
  /\ file' = [file EXCEPT !.phase = "ro", !.locked = file.lock]
  /\ live' = EmptyBag
  /\ UNCHANGED <<min_segment_size, allocated, sentinel, discarded, freed, pops, nops,
                 crashed, teardowns, cleared>>

\* Arena::map_mut on the closed file, which exists: the mapping is not zeroed, and
\* Memory::map_mut writes Header::new(data_offset, min_segment_size) over the header
\* the file holds
ReopenMut ==
  /\ ~crashed /\ file.phase = "closed" /\ ~file.locked /\ file.len >= OVERHEAD
  /\ teardowns < MaxSessions
  /\ \E base \in BaseAddrs :
       LET header_ptr_offset == align_offset(base, HEADER_ALIGN)
           doff == header_ptr_offset + OVERHEAD
       IN  /\ ptr' = base
           /\ cap' = file.len % U32_MOD
           /\ data_offset' = doff
           /\ allocated' = doff
           /\ mem' = [p \in Positions(base + doff, file.len) |->
                        IF p \in DOMAIN mem THEN mem[p] ELSE 0]
  /\ sentinel' = EMPTY_SENTINEL
  /\ discarded' = 0
  /\ min_segment_size' = MinSegmentSize
  /\ unify' = TRUE /\ ro' = FALSE /\ max_retries' \in MaxRetriesSet
  /\ refs' = 1
  /\ handles' = [t \in Threads |-> IF t = 1 THEN 1 ELSE 0]
  /\ th' = [t \in Threads |-> IF t = 1 THEN [IdleTh EXCEPT !.op = "map_mut", !.res = <<"mapped">>]
                                ELSE IdleTh]
  /\ file' = [file EXCEPT !.phase = "mut", !.locked = file.lock]
  /\ live' = EmptyBag /\ freed' = {} /\ pops' = {}
  /\ UNCHANGED <<nops, crashed, teardowns, cleared>>

\* the byte a load at file position p of the read-only mapping returns
FileByte(p) ==
  IF p < file.len /\ \E b \in file.bytes : b[1] = p
  THEN (CHOOSE b \in file.bytes : b[1] = p)[2]
  ELSE 0

\* the range written before the drop is read back through get_pointer(offset); loads
\* behind the end of the file see zeroes, or fault when they leave the mapped pages
ReadBytes(t) ==
  /\ ~crashed /\ th[t].pc = "idle" /\ handles[t] > 0 /\ nops < MaxOps
  /\ file.phase = "ro" /\ file.wrote # <<>>
  /\ nops' = nops + 1
  /\ LET p0 == FilePos(get_pointer(file.wrote[1])) IN
       /\ th' = Return(t, "read", <<"bytes", [k \in 1..file.wrote[2] |-> FileByte(p0 + k - 1)]>>)
       /\ \E fault \in BOOLEAN : crashed' = (fault /\ p0 + file.wrote[2] > cap)
  /\ UNCHANGED <<config, file, allocated, sentinel, discarded, mem, live, freed, pops,
                 rcvars, cleared>>

\* a writable session on the file, the drop of every handle, the read-only session
NextPersist ==
  \/ \E t \in Threads, n \in {16, 32} : CallAllocBytes(t, n)
  \/ \E t \in Threads : Bump(t)
  \/ \E t \in Threads : SlowLoad(t)
  \/ \E t \in Threads : SlowRemaining(t)
  \/ \E t \in Threads : WriteBytes(t)
  \/ \E t \in Threads : Clone(t)
  \/ \E t, u \in Threads : SendHandle(t, u)
  \/ \E t \in Threads : DropArena(t)
  \/ \E t \in Threads : Unmount(t)
  \/ Reopen
  \/ \E t \in Threads : ReadBytes(t)
  \/ \E t \in Threads : CallSize(t)

SpecPersist == InitPersist /\ [][NextPersist]_vars

\* sessions on one file: thread 1 allocates, deallocates and clears, drops the
\* handle, and the file is opened again with map or with map_mut
NextReopen ==
  \/ NextSeq
  \/ DropArena(1)
  \/ Unmount(1)
  \/ Reopen
  \/ ReopenMut

SpecReopen == InitPersist /\ [][NextReopen]_vars

\* ------------------------------------------------ pointers of a writable region
\* Arena::new with unify and maximum_alignment free; alloc_bytes calls and the
\* pointer calls on the offsets they return and on the reserved offset 0
NextPtr ==
  \/ \E t \in Threads, n \in Sizes : CallAllocBytes(t, n)
  \/ \E t \in Threads : Bump(t)
  \/ \E t \in Threads : SlowLoad(t)
  \/ \E t \in Threads : SlowRemaining(t)
  \/ \E t \in Threads, offset \in Offsets : CallGetPointer(t, offset)
  \/ \E t \in Threads, offset \in Offsets : CallGetPointerMut(t, offset)
  \/ \E t \in Threads : CallOffset(t)

SpecPtr == InitBump /\ [][NextPtr]_vars

\* ------------------------------------------------------ typed allocations
\* addresses the allocator of the backing buffer can return: multiples of
\* max(alignment, align_of::<Header>()), here one that is and one that is not a
\* multiple of 16
TypedBaseAddrs == {64, 72}

\* the types of thread 1's calls: the 8-aligned ones
SizedTypes == {T \in Types : T[2] = 8}

InitTyped ==
  /\ \E u \in BOOLEAN, a \in BumpAlignments, base \in TypedBaseAddrs, r \in MaxRetriesSet :
       /\ base % Max2(a, HEADER_ALIGN) = 0
       /\ NewVec(Capacity, a, MinSegmentSize, u, base, r)
  /\ GhostInit
  /\ RcShared

\* thread 1 calls alloc::<T> for sized types, alloc_bytes(32) and dealloc; thread 2
\* races with alloc::<T> for a 4-byte, 4-aligned T
NextTyped ==
  \/ \E T \in SizedTypes : CallAlloc(1, T)
  \/ CallAlloc(2, <<4, 4>>)
  \/ \E t \in Threads : BumpT(t)
  \/ CallAllocBytes(1, 32)
  \/ Bump(1)
  \/ \E t \in Threads : SlowLoad(t)
  \/ \E t \in Threads : SlowRemaining(t)
  \/ \E t \in Threads : Tombstone(t)
  \/ \E t \in Threads : ReadNext(t)
  \/ \E t \in Threads : Unlink(t)
  \/ \E a \in BagToSet(live) : CallDealloc(1, a)
  \/ \E t \in Threads : DeallocValidate(t)
  \/ \E t \in Threads : DeallocDiscard(t)
  \/ \E t \in Threads : FindStep(t)
  \/ \E t \in Threads : WriteSegmentNode(t)
  \/ \E t \in Threads : LoadPrev(t)
  \/ \E t \in Threads : LinkCas(t)
  \/ \E t \in Threads : Fault(t)

SpecTyped == InitTyped /\ [][NextTyped]_vars

\* ------------------------------------------------- requests of every u32 size
\* sizes of alloc_bytes up to u32::MAX
WideSizes == {16, 32, U32_MAX - 3, U32_MAX}

\* thread 1 calls alloc_bytes with small and with huge sizes, alloc::<T> and dealloc;
\* thread 2 races with alloc_bytes(16)
NextWide ==
  \/ \E n \in WideSizes : CallAllocBytes(1, n)
  \/ CallAllocBytes(2, 16)
  \/ \E t \in Threads : Bump(t)
  \/ CallAlloc(1, <<8, 8>>)
  \/ BumpT(1)
  \/ \E t \in Threads : SlowLoad(t)
  \/ \E t \in Threads : SlowRemaining(t)
  \/ \E t \in Threads : Tombstone(t)
  \/ \E t \in Threads : ReadNext(t)
  \/ \E t \in Threads : Unlink(t)
  \/ \E a \in BagToSet(live) : CallDealloc(1, a)
  \/ \E t \in Threads : DeallocValidate(t)
  \/ \E t \in Threads : DeallocDiscard(t)
  \/ \E t \in Threads : FindStep(t)
  \/ \E t \in Threads : WriteSegmentNode(t)
  \/ \E t \in Threads : LoadPrev(t)
  \/ \E t \in Threads : LinkCas(t)
  \/ \E t \in Threads : Fault(t)

SpecWide == Init /\ [][NextWide]_vars

\* ------------------------------------------------------ requests of size 0
\* the calls of thread 1, clear included, and alloc_bytes(0) from either thread
NextZero ==
  \/ NextSeq
  \/ \E t \in Threads : CallAllocBytes(t, 0)

SpecZero == Init /\ [][NextZero]_vars

\* ------------------------------------------------------------- retry caps
\* values of ArenaOptions::maximum_retries from 1 on
RetryCaps == {1, 2, 3}

InitRetry ==
  /\ \E u \in BOOLEAN, a \in Alignments, base \in BaseAddrs, r \in RetryCaps :
       /\ base % Max2(a, HEADER_ALIGN) = 0
       /\ NewVec(Capacity, a, MinSegmentSize, u, base, r)
  /\ GhostInit
  /\ RcShared

\* thread 1 calls alloc_bytes(32) and dealloc, thread 2 calls alloc_bytes(20)
NextRetry ==
  \/ CallAllocBytes(1, 32)
  \/ CallAllocBytes(2, 20)
  \/ \E a \in BagToSet(live) : CallDealloc(1, a)
  \/ \E t \in Threads : Bump(t)
  \/ \E t \in Threads : SlowLoad(t)
  \/ \E t \in Threads : SlowRemaining(t)
  \/ \E t \in Threads : Tombstone(t)
  \/ \E t \in Threads : ReadNext(t)
  \/ \E t \in Threads : Unlink(t)
  \/ \E t \in Threads : DeallocValidate(t)
  \/ \E t \in Threads : DeallocDiscard(t)
  \/ \E t \in Threads : FindStep(t)
  \/ \E t \in Threads : WriteSegmentNode(t)
  \/ \E t \in Threads : LoadPrev(t)
  \/ \E t \in Threads : LinkCas(t)
  \/ \E t \in Threads : Fault(t)

SpecRetry == InitRetry /\ [][NextRetry]_vars

\* Arena::new with ArenaOptions::maximum_retries = 0
InitNoRetry ==
  /\ \E u \in BOOLEAN, a \in Alignments, base \in BaseAddrs :
       /\ base % Max2(a, HEADER_ALIGN) = 0
       /\ NewVec(Capacity, a, MinSegmentSize, u, base, 0)
  /\ GhostInit
  /\ RcShared

\* thread 1 calls alloc_bytes(32) while thread 2 gives allocations back
NextNoRetry ==
  \/ CallAllocBytes(1, 32)
  \/ Bump(1)
  \/ SlowLoad(1)
  \/ SlowRemaining(1)
  \/ Tombstone(1)
  \/ ReadNext(1)
  \/ Unlink(1)
  \/ \E a \in BagToSet(live) : CallDealloc(2, a)
  \/ \E t \in Threads : DeallocValidate(t)
  \/ \E t \in Threads : DeallocDiscard(t)
  \/ \E t \in Threads : FindStep(t)
  \/ \E t \in Threads : WriteSegmentNode(t)
  \/ \E t \in Threads : LoadPrev(t)
  \/ \E t \in Threads : LinkCas(t)
  \/ \E t \in Threads : Fault(t)

SpecNoRetry == InitNoRetry /\ [][NextNoRetry]_vars

\* ------------------------------------------------------ fair scheduling
\* the steps of the call thread t is in; the thread is scheduled again and again, so a
\* call that can take a step eventually takes one
ThreadNext(t) ==
  \/ Bump(t)
  \/ SlowLoad(t)
  \/ SlowRemaining(t)
  \/ Tombstone(t)
  \/ ReadNext(t)
  \/ Unlink(t)
  \/ DeallocValidate(t)
  \/ DeallocDiscard(t)
  \/ FindStep(t)
  \/ WriteSegmentNode(t)
  \/ LoadPrev(t)
  \/ LinkCas(t)

Fairness == \A t \in Threads : WF_vars(ThreadNext(t))

\* thread 1 calls alloc_bytes(32) and dealloc, thread 2 calls alloc_bytes(20)
NextFair ==
  \/ CallAllocBytes(1, 32)
  \/ CallAllocBytes(2, 20)
  \/ \E a \in BagToSet(live) : CallDealloc(1, a)
  \/ \E t \in Threads : ThreadNext(t)
  \/ \E t \in Threads : Fault(t)

SpecFair == Init /\ [][NextFair]_vars /\ Fairness

\* --------------------------------------------------------------- observers
Quiescent == \A t \in Threads : th[t].pc = "idle"

Disjoint(a, b) == a[1] + a[2] <= b[1] \/ b[1] + b[2] <= a[1]

LiveDisjoint ==
  \A a \in BagToSet(live) :
    /\ CopiesIn(a, live) = 1
    /\ \A b \in BagToSet(live) : a # b => Disjoint(a, b)

\* C1: the ranges of the successful alloc_bytes calls of a run without dealloc are
\* pairwise disjoint and lie in [data_offset, capacity)
C1_BumpRangesInDataArea ==
  /\ LiveDisjoint
  /\ \A a \in BagToSet(live) : data_offset <= a[1] /\ a[1] + a[2] <= cap

\* ------------------------------------------------------ the free-list, walked
\* offsets of the segments reached from node word `word` through the next offsets
RECURSIVE WalkFrom(_, _)
WalkFrom(word, fuel) ==
  LET next == decode_segment_node(word)[1] IN
    IF fuel = 0 \/ next = U32_MAX \/ ~Tracked(NodePos(next)) THEN <<>>
    ELSE <<next>> \o WalkFrom(mem[NodePos(next)], fuel - 1)

WalkFuel == 8
FreeList == WalkFrom(sentinel, WalkFuel)

\* the size a segment of the list was deallocated with (the size its dealloc wrote)
SegSize(offset) ==
  IF \E f \in freed : f[1] = offset
  THEN (CHOOSE f \in freed : f[1] = offset)[2]
  ELSE 0

FreeSizes == [k \in 1..Len(FreeList) |-> SegSize(FreeList[k])]

NonIncreasing(q) == \A k \in 1..(Len(q) - 1) : q[k] >= q[k + 1]

RECURSIVE SeqSum(_)
SeqSum(q) == IF q = <<>> THEN 0 ELSE Head(q) + SeqSum(Tail(q))

RECURSIVE SetSum(_)
SetSum(S) == IF S = {} THEN 0 ELSE LET x == CHOOSE x \in S : TRUE IN x[2] + SetSum(S \ {x})

LiveBytes == SetSum({<<a, a[2] * CopiesIn(a, live)>> : a \in BagToSet(live)})

\* C2: live allocations are pairwise disjoint, and every segment the slow path pops is
\* taken with the size it was deallocated with
C2_LiveDisjointAndPopsExact ==
  /\ LiveDisjoint
  /\ \A q \in pops : q[3]

\* C3: with no operation in flight the sizes of the segments of the list, walked from
\* the sentinel, are non-increasing and none is 0
C3_ListSortedNoZero ==
  Quiescent =>
    /\ NonIncreasing(FreeSizes)
    /\ \A k \in 1..Len(FreeSizes) : FreeSizes[k] # 0

\* C4: deallocs of segments of distinct sizes into an empty list (no pop so far) end
\* with a list that holds exactly those segments, largest first
C4_DeallocsEndSorted ==
  (/\ Quiescent /\ pops = {} /\ freed # {}
   /\ \A f, g \in freed : f # g => f[2] # g[2])
  => /\ {FreeList[k] : k \in 1..Len(FreeList)} = {f[1] : f \in freed}
     /\ Len(FreeList) = Cardinality(freed)
     /\ \A k \in 1..(Len(FreeSizes) - 1) : FreeSizes[k] > FreeSizes[k + 1]

\* C5: conservation of bytes on a region whose bump pointer starts at data_offset:
\* allocated - data_offset = live bytes + bytes of the list's segments + discarded
C5_Conservation ==
  (Quiescent /\ unify) =>
    allocated - data_offset = LiveBytes + SeqSum(FreeSizes) + discarded

\* thread t is about to load the sentinel and the value it will load makes the
\* slow path return InsufficientSpace
SlowRejects(t) ==
  /\ th[t].pc = "slow"
  /\ LET d == decode_segment_node(sentinel) IN
       \/ d[1] = U32_MAX /\ d[2] = U32_MAX
       \/ d[2] # 0 /\ th[t].size > d[2]

SlowRejectsOnSize(t) ==
  /\ th[t].pc = "slow"
  /\ LET d == decode_segment_node(sentinel) IN
       /\ ~(d[1] = U32_MAX /\ d[2] = U32_MAX)
       /\ d[2] # 0 /\ th[t].size > d[2]

OthersIdle(t) == \A u \in Threads \ {t} : th[u].pc = "idle"

MaxFreed == IF freed = {} THEN 0 ELSE (CHOOSE f \in freed : \A g \in freed : f[2] >= g[2])[2]

\* C6: the slow path rejects a request only when the bump pointer cannot serve it and
\* no free segment (deallocated, its dealloc returned, not handed out again) is large
\* enough; run alone while a large enough free segment exists, it neither rejects
\* nor waits
C6_RejectsOnlyWithoutFit ==
  \A t \in Threads :
    /\ SlowRejects(t) =>
         /\ allocated + th[t].size > cap
         /\ \A f \in freed : f[2] < th[t].size
    /\ (th[t].pc = "slow" /\ OthersIdle(t) /\ \E f \in freed : f[2] >= th[t].size) =>
         /\ ~SlowRejects(t)
         /\ decode_segment_node(sentinel)[2] # 0

\* C7: InsufficientSpace reports remaining() when no free segment is left (also after
\* the slow path took the last one), and the size of the largest free segment otherwise
C7_AvailableReported ==
  \A t \in Threads :
    /\ (SlowRejects(t) /\ freed = {}) => ~SlowRejectsOnSize(t)
    /\ SlowRejectsOnSize(t) => decode_segment_node(sentinel)[2] = MaxFreed
    /\ (th[t].pc = "idle" /\ th[t].res[1] = "InsufficientSpace" /\ OthersIdle(t) /\ freed = {})
         => th[t].res[3] = remaining

\* the header and the data words are the ones some persisted region holds
HeaderAsPersisted ==
  \E h \in Persisted :
    /\ allocated = h[1] /\ sentinel = h[2] /\ discarded = h[3]
    /\ \A p \in DOMAIN mem :
         mem[p] = IF \E w \in h[4] : w[1] = p THEN (CHOOSE w \in h[4] : w[1] = p)[2] ELSE 0

\* C8: on a read-only region alloc_bytes (0 included), alloc<T> (zero-sized T included)
\* and clear return ReadOnly, get_pointer_mut panics, get_pointer, size and capacity
\* return a value, and the header and the data words stay as they were persisted
C8_ReadOnlyRejects ==
  ro =>
    /\ \A t \in Threads :
         /\ th[t].op \in {"alloc_bytes", "alloc", "clear"} => th[t].res = ReadOnly
         /\ th[t].op = "get_pointer_mut" => th[t].res = <<"panic">>
         /\ th[t].op = "get_pointer" => th[t].res[1] = "ptr"
         /\ th[t].op = "size" => th[t].res = <<"usize", allocated>>
         /\ th[t].op = "capacity" => th[t].res = <<"usize", cap>>
    /\ HeaderAsPersisted
    /\ live = EmptyBag

RECURSIVE SumUpTo(_, _)
SumUpTo(f, n) == IF n = 0 THEN 0 ELSE f[n] + SumUpTo(f, n - 1)

\* number of live handles
LiveHandles == SumUpTo(handles, NThreads)

Unmounting == Cardinality({t \in Threads : th[t].pc = "unmount"})

\* C9: refs counts the live handles; the teardown runs at most once, it is started
\* by the drop of the last handle and by no other, and no call is in flight or torn
\* down memory used while a handle is live
C9_RefsCountHandles ==
  /\ refs = LiveHandles
  /\ teardowns + Unmounting = (IF LiveHandles = 0 THEN 1 ELSE 0)
  /\ \A t \in Threads : th[t].pc \notin {"idle", "unmount"} => LiveHandles > 0

\* the last of three handles is dropped by thread 2 after thread 1 dropped its own
C9_Witness ==
  /\ teardowns = 1
  /\ th[1].res = <<"dropped">>
  /\ th[2].res = <<"unmounted">>

\* the step is a clear() that returned Ok
ClearStep == cleared' = "fresh" /\ nops' = nops + 1

\* C10: a clear() on a writable region with no call in flight sets allocated to
\* data_offset, the sentinel to encode(MAX, MAX) and discarded to 0 and leaves
\* min_segment_size and refs as they were; the header stays so until an allocation
\* succeeds, and the first alloc_bytes that succeeds afterwards returns data_offset
C10_ClearResets ==
  [][/\ ClearStep =>
          /\ allocated' = data_offset
          /\ sentinel' = encode_segment_node(U32_MAX, U32_MAX)
          /\ discarded' = 0
          /\ min_segment_size' = min_segment_size
          /\ refs' = refs
     /\ (cleared = "fresh" /\ cleared' = "fresh" /\ ~ClearStep) =>
          UNCHANGED <<allocated, sentinel, discarded>>
     /\ (cleared = "fresh" /\ cleared' = "used") =>
          /\ th'[1].op = "alloc_bytes"
          /\ th'[1].res = Ok(data_offset, th[1].size)]_vars

\* five calls with a clear() among them; the last one, the first alloc_bytes to
\* succeed after the clear, returned data_offset
C10_Witness ==
  /\ cleared = "used"
  /\ nops = 5
  /\ th[1].pc = "idle" /\ th[1].res = Ok(data_offset, 16)
  /\ allocated = data_offset + 16

\* C11: get_pointer(offset) and get_pointer_mut(offset) return base + offset for a
\* non-zero offset, base being the start of the backing region (Arena.ptr), and the
\* designated null pointer (Memory::null, the same Arena.ptr) for offset 0
C11_PointerIsBasePlusOffset ==
  \A t \in Threads :
    (th[t].op \in {"get_pointer", "get_pointer_mut"} /\ th[t].res[1] = "ptr") =>
      th[t].res[2] = (IF th[t].off = 0 THEN ptr ELSE ptr + th[t].off)

\* C12: offset is the inverse of get_pointer_mut on a writable region, the reserved
\* offset 0 included: offset(get_pointer_mut(o)) = o
C12_OffsetInvertsGetPointerMut ==
  \A t \in Threads : th[t].op = "offset" => th[t].res = <<"usize", th[t].off>>

\* thread t's last call was an alloc::<T> that returned Ok
AllocReturned(t) == th[t].pc = "idle" /\ th[t].op = "alloc" /\ th[t].res[1] = "ok"

\* C13: for the (offset, cap) an alloc::<T> of a sized T returned, by the bump path or
\* the slow path, a = get_aligned_pointer::<T>(offset) is a multiple of align_of::<T>()
\* and a + size_of::<T>() <= address(offset) + cap
C13_AlignedAndFits ==
  \A t \in Threads :
    AllocReturned(t) =>
      LET a == get_aligned_pointer(th[t].res[2], th[t].ty[2]) IN
        /\ a % th[t].ty[2] = 0
        /\ a + th[t].ty[1] <= get_pointer(th[t].res[2]) + th[t].res[3]

\* an alloc::<T> was served by the slow path from a segment whose start is not
\* aligned for T
C13_Witness ==
  /\ AllocReturned(1)
  /\ \E q \in pops : q[1] = th[1].res[2]
  /\ th[1].res[3] = pad(th[1].ty)
  /\ get_aligned_pointer(th[1].res[2], th[1].ty[2]) > get_pointer(th[1].res[2])

\* the step is the return of an alloc::<T> of thread t with Ok
AllocReturns(t) == th[t].pc # "idle" /\ AllocReturned(t)'

C15_AllocatedMonotone == [][allocated' >= allocated]_vars

\* C16: in every reachable state of a region made by any constructor, the fresh
\* region included, data_offset <= allocated <= capacity
C16_AllocatedInBounds == data_offset <= allocated /\ allocated <= cap

\* C17: after a writable session on a unified file mapping (any shrink_on_drop and
\* lock) that allocated with alloc_bytes and wrote bytes at the returned offset, the
\* drop of every handle and the reopening with map, the range read through
\* get_pointer holds the bytes written and size() is what it was before the drop
C17_RoundTrip ==
  file.phase = "ro" =>
    \A t \in Threads :
      /\ th[t].op = "read" => th[t].res = <<"bytes", Payload>>
      /\ th[t].op = "size" => th[t].res = <<"usize", file.size0>>

\* the step is thread t's second CAS of a pop (it removes the head segment) / the
\* return of a slow-path allocation of thread t
PopStep(t) == th[t].pc = "unlink" /\ th'[t].pc = "de_validate"
SlowReturn(t) == th[t].pc \in {"de_discard", "de_cas"} /\ th[t].ret = "slow" /\ th'[t].pc = "idle"

\* C18: a slow-path allocation of n bytes that pops the head segment (o, s), s the
\* size it was deallocated with and n <= s, hands the tail (o + n, s - n) to dealloc,
\* returns (offset o, cap n) and leaves allocated unchanged; an eligible tail becomes a
\* segment of the list and discarded is unchanged, any other tail adds s - n to
\* discarded and the list gains no segment
C18_PopReturnsHeadAndDisposesTail ==
  [][\A t \in Threads :
       LET o == decode_segment_node(th[t].head)[1]
           n == th[t].size
       IN  /\ (PopStep(t) /\ n <= SegSize(o)) =>
                /\ th'[t].off = o + n
                /\ th'[t].dsz = SegSize(o) - n
                /\ allocated' = allocated
           /\ SlowReturn(t) =>
                /\ th'[t].res = Ok(o, n)
                /\ allocated' = allocated
                /\ IF validate_segment(th[t].off, th[t].dsz)
                   THEN /\ discarded' = discarded
                        /\ freed' = freed \cup {<<th[t].off, th[t].dsz>>}
                        /\ \E k \in 1..Len(FreeList') : FreeList'[k] = th[t].off
                   ELSE /\ discarded' = discarded + th[t].dsz
                        /\ freed' = freed
                        /\ FreeList' = FreeList]_vars

\* the step is one of thread t
StepOf(t) == th'[t] # th[t]

\* eligibility of (offset, size) as a free-list segment: the padding that aligns its
\* address for an AtomicU64 plus sizeof(AtomicU64) + sizeof(u32) is strictly less than
\* size, and size is not below the current min_segment_size
Eligible(offset, size) ==
  /\ align_offset(get_pointer_mut(offset), 8) + 8 + 4 < size
  /\ size >= min_segment_size

\* C19: a dealloc(offset, size) of a segment that is not eligible when dealloc tests it
\* adds exactly size to discarded and changes neither the sentinel, nor a node word,
\* nor allocated; the dealloc of an eligible segment leaves discarded unchanged
C19_IneligibleIsDiscardedOnly ==
  [][\A t \in Threads :
       StepOf(t) =>
         /\ th[t].pc = "de_validate" =>
              /\ (th'[t].pc = "de_discard") = ~Eligible(th[t].off, th[t].dsz)
              /\ UNCHANGED <<discarded, sentinel, allocated>>
              /\ ~Eligible(th[t].off, th[t].dsz) => UNCHANGED mem
         /\ th[t].pc = "de_discard" =>
              /\ discarded' = discarded + th[t].dsz
              /\ th'[t].pc = "idle"
              /\ UNCHANGED <<sentinel, mem, allocated>>
         /\ th[t].pc \in {"de_find", "de_write", "de_loadprev", "de_cas"} =>
              UNCHANGED discarded]_vars

\* a segment of an eligible shape was deallocated after thread 2 raised the minimum
\* segment size above its size: it was added to discarded and the list stayed empty
C19_Witness ==
  /\ th[1].pc = "idle" /\ th[1].op = "dealloc" /\ th[1].res = <<"freed">>
  /\ min_segment_size > MinSegmentSize
  /\ discarded \in Sizes /\ discarded < min_segment_size
  /\ sentinel = EMPTY_SENTINEL /\ freed = {} /\ pops = {}

\* the step is the successful compare-and-swap of thread t's alloc_bytes on the bump
\* path / a step of an alloc_bytes call of thread t past the bump path
BumpSuccess(t) == th[t].pc = "bump" /\ th'[t].pc = "idle" /\ th'[t].res[1] = "ok"
PastBump(t) == StepOf(t) /\ (th[t].pc \in {"slow", "slow_remaining"} \/ th'[t].pc = "slow")

\* C20: with no free segments a successful alloc_bytes(n) returns offset = allocated
\* as it was right before the successful CAS and cap = n, and raises allocated by
\* exactly n, so that the calls return data_offset, data_offset + n1, ... in the order
\* of their CASes; a call that ends with InsufficientSpace changes neither allocated,
\* nor the sentinel, nor discarded
C20_BumpIsExact ==
  [][\A t \in Threads :
       /\ BumpSuccess(t) =>
            /\ th'[t].res = Ok(allocated, th[t].size)
            /\ allocated' = allocated + th[t].size
            /\ th'[t].res[2] = data_offset + LiveBytes
       /\ PastBump(t) => UNCHANGED <<allocated, sentinel, discarded>>]_vars

\* the step is one iteration of the bump loop of thread t's alloc_bytes
BumpIteration(t) == th[t].pc = "bump" /\ StepOf(t)

\* C21: an iteration of the bump loop of alloc_bytes(size) that finds the mathematical
\* sum allocated + size above capacity, a sum above u32::MAX included, leaves allocated
\* as it is and goes to the slow path
C21_OverCapacityGoesToSlowPath ==
  [][\A t \in Threads :
       (BumpIteration(t) /\ th[t].alc + th[t].size > cap) =>
         /\ allocated' = allocated
         /\ th'[t].pc = "slow"]_vars

\* the sentinel holds a tombstone: the size half of its word is 0
Tombstoned == decode_segment_node(sentinel)[2] = 0

\* thread t is at a load of the sentinel that backs off from a tombstone: the slow
\* path, find_free_list_position at the sentinel, dealloc before its load of the
\* sentinel as the previous node
WaitsOnTombstone(t) ==
  /\ Tombstoned
  /\ \/ th[t].pc = "slow"
     \/ th[t].pc = "de_find" /\ th[t].cur = -1
     \/ th[t].pc \in {"de_write", "de_loadprev"} /\ th[t].prev = 0

\* C22: while the process lives, a tombstone in the sentinel is eventually replaced by
\* a word that is none, and no thread backs off from a tombstone forever
C22_TombstoneIsTransient ==
  /\ Tombstoned ~> (~Tombstoned \/ crashed)
  /\ \A t \in Threads : WaitsOnTombstone(t) ~> (~WaitsOnTombstone(t) \/ crashed)

\* a pop of the slow path resolved the node at offset MAX (the sentinel held MAX as
\* next and a size other than MAX)
WildPop ==
  \/ \E q \in pops : q[1] = U32_MAX
  \/ \E t \in Threads :
       th[t].pc \in {"readnext", "unlink"} /\ decode_segment_node(th[t].head)[1] = U32_MAX

\* C23: with max_retries >= 1 and every thread scheduled fairly, every call of
\* alloc_bytes and of dealloc in flight eventually returns (unless the process died or
\* a pop left the region through offset MAX)
C23_CallsTerminate ==
  \A t \in Threads : (th[t].pc # "idle") ~> (th[t].pc = "idle" \/ crashed \/ WildPop)

\* the step ends a slow-path attempt of thread t with an error
AttemptFails(t) ==
  /\ StepOf(t)
  /\ \/ th[t].pc = "slow" /\ th'[t].pc \in {"slow", "idle"}
     \/ th[t].pc = "slow_remaining"

\* the error the attempt that ends in this step returns
AttemptError(t) ==
  InsufficientSpace(th[t].size,
                    IF th[t].pc = "slow" THEN decode_segment_node(sentinel)[2] ELSE remaining)

\* thread t is in the slow-path loop of alloc_bytes
InSlowLoop(t) == th[t].pc \in {"slow", "slow_remaining", "tomb", "readnext", "unlink"}

\* C24: with max_retries = r >= 1, alloc_bytes enters the slow-path loop with the
\* count of failed attempts at 0, a failed attempt that is not the r-th is followed
\* by another attempt, the r-th failed attempt returns its own InsufficientSpace, and
\* an attempt that succeeds returns its descriptor at once
C24_RetriesAreCapped ==
  [][\A t \in Threads :
       /\ (th[t].pc = "bump" /\ th'[t].pc = "slow") => th'[t].i = 0
       /\ InSlowLoop(t) => th[t].i < max_retries
       /\ AttemptFails(t) =>
            IF th[t].i + 1 = max_retries
            THEN th'[t].pc = "idle" /\ th'[t].res = AttemptError(t)
            ELSE th'[t].pc = "slow" /\ th'[t].i = th[t].i + 1
       /\ SlowReturn(t) =>
            th'[t].res = Ok(decode_segment_node(th[t].head)[1], th[t].size)]_vars

\* with max_retries = 3: thread 1's call ended with InsufficientSpace, and thread 2's
\* third attempt, after two that failed, popped the segment a dealloc linked meanwhile
C24_Witness ==
  /\ max_retries = 3
  /\ \E t \in Threads : th[t].pc = "idle" /\ th[t].res[1] = "InsufficientSpace"
  /\ \E t \in Threads : th[t].pc = "de_validate" /\ th[t].ret = "slow" /\ th[t].i = 2

\* C25 as stated: on a writable region with max_retries = 0 no alloc_bytes call
\* returns InsufficientSpace (a call whose attempts all fail retries forever)
C25_NeverReturns ==
  max_retries = 0 =>
    \A t \in Threads : ~(th[t].pc = "idle" /\ th[t].res[1] = "InsufficientSpace")

\* C25 amended: with max_retries = 0 the test after a failed attempt either panics
\* (overflow checks, first failed attempt) or compares the u8 counter with 255: the
\* attempts go on while the counter is below 255, and the 256th failed attempt
\* returns its InsufficientSpace
C25_ReturnsAfter256Attempts ==
  [][\A t \in Threads :
       (max_retries = 0 /\ AttemptFails(t)) =>
         \/ th[t].i = 0 /\ th'[t].pc = "idle" /\ th'[t].res = <<"panic">>
         \/ th[t].i < U8_MOD - 1 /\ th'[t].pc = "slow" /\ th'[t].i = th[t].i + 1
         \/ th[t].i = U8_MOD - 1 /\ th'[t].pc = "idle" /\ th'[t].res = AttemptError(t)]_vars

\* with max_retries = 0 a call ended with InsufficientSpace, on a region that holds no
\* free segment
C25_Witness ==
  /\ max_retries = 0
  /\ th[1].pc = "idle" /\ th[1].op = "alloc_bytes" /\ th[1].res[1] = "InsufficientSpace"
  /\ freed = {} /\ pops = {}

\* the step is a call alloc_bytes(0) of thread t
ZeroCall(t) ==
  /\ th[t].pc = "idle" /\ StepOf(t)
  /\ th'[t].op = "alloc_bytes" /\ th'[t].size = 0

\* C26: alloc_bytes(0) on a writable region returns the null descriptor at once and
\* leaves allocated, the sentinel, discarded, the node words, the live allocations and
\* the free segments as they are, in every state, a full region included
C26_ZeroSizeChangesNothing ==
  [][\A t \in Threads :
       (ZeroCall(t) /\ ~ro) =>
         /\ th'[t].pc = "idle" /\ th'[t].res = Null
         /\ UNCHANGED <<allocated, sentinel, discarded, mem, live, freed, min_segment_size>>]_vars

\* thread 1 filled the region to its capacity with three allocations and then called
\* alloc_bytes(0)
C26_Witness ==
  /\ allocated = cap
  /\ nops = 4
  /\ th[1].pc = "idle" /\ th[1].op = "alloc_bytes" /\ th[1].res = Null
  /\ th[2].res = <<"none">>

\* the step opens the closed file again
ReopenStep == file.phase = "closed" /\ file'.phase \in {"ro", "mut"}

\* C27: opening a file that holds a region, with map or with map_mut, yields a region
\* whose allocated, sentinel and discarded are the ones the file held when the last
\* handle of the session before was dropped
C27_HeaderSurvivesReopen ==
  [][ReopenStep => <<allocated', sentinel', discarded'>> = file.hdr]_vars

\* no segment follows the sentinel
ListEmpty == decode_segment_node(sentinel)[1] = U32_MAX

\* thread t's slow path is loading, or has loaded, the node word at offset MAX
ResolvesMax(t) ==
  th[t].pc \in {"readnext", "unlink"} /\ decode_segment_node(th[t].head)[1] = U32_MAX

\* C28: with no operation in flight and no segment in the list the sentinel is
\* encode(MAX, MAX), also after a pop of the last segment whose tail was discarded, and
\* no slow path resolves a segment node at offset MAX
C28_EmptyListIsEmptyEncoding ==
  /\ (Quiescent /\ ListEmpty) => sentinel = EMPTY_SENTINEL
  /\ \A t \in Threads : ~ResolvesMax(t)

\* the addresses lo .. hi - 1 are addresses of the backing region
InRegion(lo, hi) == ptr <= lo /\ hi <= ptr + cap

\* thread t's dealloc has zeroed its range / has written its node word
HasZeroed(t) == th[t].pc \in {"de_find", "de_write", "de_loadprev", "de_cas"}
HasWrittenNode(t) == th[t].pc \in {"de_loadprev", "de_cas"}

\* C29: the bytes of every successful allocation, from get_pointer(offset) on, the
\* bytes a dealloc zeroes, the node word it writes and the bytes clear zeroes are
\* addresses of the backing region [base, base + capacity)
C29_AddressesInsideRegion ==
  /\ \A a \in BagToSet(live) : InRegion(get_pointer(a[1]), get_pointer(a[1]) + a[2])
  /\ \A t \in Threads :
       /\ HasZeroed(t) =>
            InRegion(write_data_ptr + th[t].off, write_data_ptr + th[t].off + th[t].dsz)
       /\ HasWrittenNode(t) =>
            InRegion(read_data_ptr + NodePos(th[t].off),
                     read_data_ptr + NodePos(th[t].off) + ATOMIC_U64_SIZE)
  /\ cleared = "fresh" => InRegion(write_data_ptr, write_data_ptr + cap)

\* the segment at `offset` is reached from the sentinel through the next offsets
Reachable(offset) == \E k \in 1..Len(FreeList) : FreeList[k] = offset

\* C30: under any interleaving of deallocs and slow-path allocations, an eligible
\* segment whose dealloc has returned is reachable from the sentinel until a slow-path
\* allocation pops that segment
C30_NoSegmentLost == \A f \in freed : Reachable(f[1])

\* a segment at `offset` was linked by a dealloc and not popped since
InList(offset) == \E f \in freed : f[1] = offset

\* the node word thread t's dealloc is about to load (in find_free_list_position or
\* as prev_node) or to compare-and-swap: -1 is the sentinel
NodeInHand(t) ==
  IF th[t].pc = "de_find" THEN th[t].cur
  ELSE IF th[t].pc \in {"de_loadprev", "de_cas"} THEN PrevNode(t)
  ELSE -1

\* C31: under any interleaving of alloc_bytes and dealloc, a node word that
\* find_free_list_position or dealloc loads or compare-and-swaps is the sentinel or the
\* node word of a segment that is in the list at that moment, never one inside a
\* segment that was popped and handed out
C31_WalkStaysInList ==
  \A t \in Threads : NodeInHand(t) # -1 => InList(NodeInHand(t))

\* the threads whose first compare-and-swap of a pop succeeded and whose second one
\* is still to come, and the tombstone such a thread wrote
TombstoneOwners == {t \in Threads : th[t].pc \in {"readnext", "unlink"}}
OwnTombstone(t) == encode_segment_node(decode_segment_node(th[t].head)[1], 0)

\* C32: while a slow-path allocator owns the tombstone it wrote, the sentinel keeps
\* that tombstone (no other allocator and no dealloc changes it) and no second thread
\* owns one; the allocator's unlink compare-and-swap succeeds, its failure branch is
\* never taken
C32_TombstoneIsExclusive ==
  /\ [](/\ Cardinality(TombstoneOwners) <= 1
        /\ \A t \in TombstoneOwners : sentinel = OwnTombstone(t))
  /\ [][\A t \in Threads : (th[t].pc = "unlink" /\ StepOf(t)) => PopStep(t)]_vars

\* thread t has unlinked the head while thread u, which read the same head before t
\* tombstoned it, is about to try its own first compare-and-swap
C32_Witness ==
  \E t, u \in Threads :
    /\ t # u
    /\ th[t].pc = "de_validate" /\ th[t].ret = "slow"
    /\ th[u].pc = "tomb" /\ th[u].head = th[t].head

====
